---- MODULE Spec2Model ----
(***************************************************************************)
(* Model of rust-concurrency-workshop:                                     *)
(*  - Spec: part-5 (calculate, serial_calculate, parallel_calculate) and   *)
(*    part-6 rayon_parallel_calculate, under a caller that repeats calls;  *)
(*  - SpecHarness: the timing tests parallel_is_faster and run_test;       *)
(*  - SpecDemos: the programs of part-2, part-3 and part-4.                *)
(***************************************************************************)
EXTENDS Integers, Sequences, FiniteSets, TLC

\* ------------------------------------------------------------------------
\* Bounds of the model
\* ------------------------------------------------------------------------
MaxLen == 3        \* longest dataset explored
MaxP == 2          \* largest hardware parallelism explored
MaxRuns == 2       \* invocations of parallel_calculate per behaviour

\* ------------------------------------------------------------------------
\* u64 arithmetic.  A u64 is four 16-bit limbs, least significant first, so
\* that the full 64-bit width is kept without leaving TLC's integer range.
\* ------------------------------------------------------------------------
LimbBase == 2^16

u64(n) == <<n, 0, 0, 0>>

TWO63 == <<0, 0, 0, 32768>>          \* 2^63, the smallest value whose double overflows

\* datum.0 * 2 computed limb by limb: the wrapped product and the carry out of bit 63
MulTwo(x) ==
    LET d1 == 2 * x[1]
        d2 == 2 * x[2] + (d1 \div LimbBase)
        d3 == 2 * x[3] + (d2 \div LimbBase)
        d4 == 2 * x[4] + (d3 \div LimbBase)
    IN  [val |-> <<d1 % LimbBase, d2 % LimbBase, d3 % LimbBase, d4 % LimbBase>>,
         overflow |-> (d4 \div LimbBase) = 1]

\* Values a Data item may carry in the explored datasets
DataValues == {u64(1), u64(2), u64(3), TWO63}

\* All datasets of length 0..MaxLen
Datasets == UNION {[1..n -> DataValues] : n \in 0..MaxLen}

\* Outcomes of a call or of a thread: a value, or an unwinding panic
Ok(v) == [kind |-> "ok", val |-> v]
Panic == [kind |-> "panic", val |-> <<>>]
None == [kind |-> "none", val |-> <<>>]

VARIABLES
    data,             \* the Vec<Data> handed to parallel_calculate
    overflow_checks,  \* build profile: TRUE = overflow checks on (dev/test), FALSE = release
    parallelism,      \* std::thread::available_parallelism() of the machine
    pc,               \* position of the calling thread inside parallel_calculate
    next,             \* index of the next datum the for loop will take
    threads,          \* spawned worker threads: id -> [state, datum, result]
    handles,          \* Vec<JoinHandle>, then the part of its iterator not yet consumed
    results,          \* elements collected so far by results.collect()
    ret,              \* what the current call handed to its caller
    history,          \* outcomes of the earlier calls on the same dataset
    overtaken,        \* TRUE once a worker has ended before a worker spawned earlier
    computed,         \* per input position: how many times calculate ran on that item
    leaked,           \* detached workers of earlier calls that are still running
    rayon,            \* run_test: outcome and worker count of rayon_parallel_calculate
    test,             \* the timing test that is running, "none" outside the test harnesses
    hpc,              \* position of the test function
    checked,          \* TRUE once the test has matched on available_parallelism()
    started,          \* TRUE once the test has begun a timed run
    serial,           \* parallel_is_faster: outcome of its serial_calculate run
    b_pc,             \* part-2: position of the receiving thread (main / the test)
    b_prod,           \* part-2: state of the thread spawned by across_the_border
    b_sent,           \* part-2: next value of 0..10 the producer will send
    b_chan,           \* part-2: messages in the mpsc channel
    b_x,              \* part-2: the value the last recv() returned
    b_result,         \* part-2: the Vec the test pushes the received values to
    r_pc,             \* part-3: position of main / the test
    r_results,        \* part-3: the HashSet of received values
    a_pc,             \* part-4: position of main / the test
    t_pc,             \* part-4: position of the thread spawned by assignment
    mtx               \* part-4: the Mutex<bool>: [owner, value, poisoned]

machine == <<data, overflow_checks, parallelism>>

part5 == <<pc, next, threads, handles, results, ret, history, overtaken, computed, leaked, rayon>>

harness == <<test, hpc, checked, started, serial>>

part2 == <<b_pc, b_prod, b_sent, b_chan, b_x, b_result>>

part3 == <<r_pc, r_results>>

part4 == <<a_pc, t_pc, mtx>>

\* The programs of parts 2 to 4
demos == <<part2, part3, part4>>

vars == <<machine, part5, harness, demos>>

\* What a step inside parallel_calculate or rayon_parallel_calculate never touches
env == <<machine, harness, demos>>

\* ------------------------------------------------------------------------
\* part-5 lib.rs
\* ------------------------------------------------------------------------

\* fn calculate: sleeps, then datum.0 * 2; the multiplication panics on
\* overflow when overflow checks are compiled in and wraps otherwise
calculate(datum) ==
    LET m == MulTwo(datum)
    IN  IF m.overflow /\ overflow_checks THEN Panic ELSE Ok(m.val)

\* fn serial_calculate: data.into_iter().map(calculate).collect()
RECURSIVE serial_from(_, _)
serial_from(d, i) ==
    IF i > Len(d) THEN Ok(<<>>)
    ELSE LET c == calculate(d[i])
         IN  IF c.kind = "panic" THEN Panic
             ELSE LET r == serial_from(d, i + 1)
                  IN  IF r.kind = "panic" THEN Panic
                      ELSE Ok(<<c.val>> \o r.val)

serial_calculate(d) == serial_from(d, 1)

Running(t) == {i \in DOMAIN t : t[i].state = "running"}

\* A caller invokes parallel_calculate(data); a previous call's outcome is
\* kept, and its workers that were never joined keep running detached
Call ==
    /\ pc \in {"idle", "done", "panicked"}
    /\ Len(history) + (IF pc = "idle" THEN 0 ELSE 1) < MaxRuns
    /\ pc' = "spawn"
    /\ next' = 1
    /\ threads' = <<>>
    /\ handles' = <<>>
    /\ results' = <<>>
    /\ ret' = None
    /\ history' = IF pc = "idle" THEN history
                  ELSE Append(history, [ret |-> ret, overtaken |-> overtaken])
    /\ overtaken' = FALSE
    /\ computed' = [i \in 1..Len(data) |-> 0]
    /\ leaked' = leaked + Cardinality(Running(threads))
    /\ rayon' = [ret |-> None, spawned |-> 0]
    /\ UNCHANGED env

Min(a, b) == IF a <= b THEN a ELSE b

\* Variant: the loop stops after as many workers as there are execution units
MoreData_PoolSized == next <= Min(parallelism, Len(data))

\* Variant: the loop bound is off by one and leaves the last datum out
MoreData_OffByOne == next < Len(data)

\* The for loop still has a datum to take
MoreData == next <= Len(data)

\* for datum in data { handles.push(std::thread::spawn(|| calculate(datum))) }
\* (the operating system is taken to grant every thread within MaxLen)
Spawn ==
    /\ pc = "spawn"
    /\ MoreData
    /\ threads' = Append(threads, [state |-> "running", index |-> next,
                                   datum |-> data[next], result |-> None])
    /\ handles' = Append(handles, Len(threads) + 1)
    /\ next' = next + 1
    /\ UNCHANGED <<env, pc, results, ret, history, overtaken, computed, leaked, rayon>>

\* the for loop is exhausted; handles.into_iter().map(..) is built
SpawnDone ==
    /\ pc = "spawn"
    /\ ~MoreData
    /\ pc' = "join"
    /\ UNCHANGED <<env, next, threads, handles, results, ret, history, overtaken, computed, leaked, rayon>>

\* a worker thread runs its closure to the end: calculate(datum)
WorkerRun(i) ==
    /\ i \in DOMAIN threads
    /\ threads[i].state = "running"
    /\ LET c == calculate(threads[i].datum)
       IN  threads' = [threads EXCEPT ![i].state = IF c.kind = "panic" THEN "panicked" ELSE "finished",
                                      ![i].result = c]
    /\ overtaken' = (overtaken \/ \E j \in 1..(i - 1) : threads[j].state = "running")
    /\ computed' = [computed EXCEPT ![threads[i].index] = @ + 1]
    /\ UNCHANGED <<env, pc, next, handles, results, ret, history, leaked, rayon>>

\* a detached worker of an earlier call runs to its end
LeakedRun ==
    /\ leaked > 0
    /\ leaked' = leaked - 1
    /\ UNCHANGED <<env, pc, next, threads, handles, results, ret, history, overtaken, computed, rayon>>

\* The handle the join iterator yields next
NextHandle == Head(handles)

\* Variant: the collector takes whichever worker has ended, in completion order
Join_CompletionOrder ==
    /\ pc = "join"
    /\ \E k \in 1..Len(handles) :
         LET h == handles[k]
         IN  /\ threads[h].state \in {"finished", "panicked"}
             /\ IF threads[h].state = "finished"
                THEN /\ results' = Append(results, threads[h].result.val)
                     /\ handles' = SubSeq(handles, 1, k - 1) \o SubSeq(handles, k + 1, Len(handles))
                     /\ threads' = [threads EXCEPT ![h].state = "joined"]
                     /\ UNCHANGED <<pc, ret>>
                ELSE /\ pc' = "panicked"
                     /\ ret' = Panic
                     /\ results' = <<>>
                     /\ handles' = <<>>
                     /\ threads' = [threads EXCEPT ![h].state = "joined"]
    /\ UNCHANGED <<env, next, history, overtaken, computed, leaked, rayon>>

\* Variant: a failed join is skipped (join().ok() filtered) instead of unwrapped
Join_SkipPanicked ==
    /\ pc = "join"
    /\ handles # <<>>
    /\ LET h == Head(handles)
       IN  /\ threads[h].state \in {"finished", "panicked"}
           /\ results' = IF threads[h].state = "finished"
                         THEN Append(results, threads[h].result.val)
                         ELSE results
           /\ handles' = Tail(handles)
           /\ threads' = [threads EXCEPT ![h].state = "joined"]
    /\ UNCHANGED <<env, pc, ret, next, history, overtaken, computed, leaked, rayon>>

\* Variant: spawning and joining are one lazy iterator chain, so a handle
\* is joined as soon as it exists
Join_Lazy ==
    /\ pc \in {"spawn", "join"}
    /\ handles # <<>>
    /\ LET h == Head(handles)
       IN  /\ threads[h].state \in {"finished", "panicked"}
           /\ IF threads[h].state = "finished"
              THEN /\ results' = Append(results, threads[h].result.val)
                   /\ handles' = Tail(handles)
                   /\ threads' = [threads EXCEPT ![h].state = "joined"]
                   /\ UNCHANGED <<pc, ret>>
              ELSE /\ pc' = "panicked"
                   /\ ret' = Panic
                   /\ results' = <<>>
                   /\ handles' = <<>>
                   /\ threads' = [threads EXCEPT ![h].state = "joined"]
    /\ UNCHANGED <<env, next, history, overtaken, computed, leaked, rayon>>

\* Variant: handles are taken from the back of the Vec (handles.pop())
Join_FromBack ==
    /\ pc = "join"
    /\ handles # <<>>
    /\ LET h == handles[Len(handles)]
       IN  /\ threads[h].state \in {"finished", "panicked"}
           /\ IF threads[h].state = "finished"
              THEN /\ results' = Append(results, threads[h].result.val)
                   /\ handles' = SubSeq(handles, 1, Len(handles) - 1)
                   /\ threads' = [threads EXCEPT ![h].state = "joined"]
                   /\ UNCHANGED <<pc, ret>>
              ELSE /\ pc' = "panicked"
                   /\ ret' = Panic
                   /\ results' = <<>>
                   /\ handles' = <<>>
                   /\ threads' = [threads EXCEPT ![h].state = "joined"]
    /\ UNCHANGED <<env, next, history, overtaken, computed, leaked, rayon>>

\* one step of handles.into_iter().map(|x| x.join().unwrap()) driven by collect():
\* blocks until the thread of the next handle has ended, then takes its
\* value, or panics on Err and drops the collected elements and the handles
Join ==
    /\ pc = "join"
    /\ handles # <<>>
    /\ LET h == NextHandle
       IN  /\ threads[h].state \in {"finished", "panicked"}
           /\ IF threads[h].state = "finished"
              THEN /\ results' = Append(results, threads[h].result.val)
                   /\ handles' = Tail(handles)
                   /\ threads' = [threads EXCEPT ![h].state = "joined"]
                   /\ UNCHANGED <<pc, ret>>
              ELSE /\ pc' = "panicked"
                   /\ ret' = Panic
                   /\ results' = <<>>
                   /\ handles' = <<>>
                   /\ threads' = [threads EXCEPT ![h].state = "joined"]
    /\ UNCHANGED <<env, next, history, overtaken, computed, leaked, rayon>>

\* Variant: the collected Vec is indexed before it is returned, which
\* panics when nothing was collected
Return_PanicOnEmpty ==
    /\ pc = "join"
    /\ handles = <<>>
    /\ pc' = IF results = <<>> THEN "panicked" ELSE "done"
    /\ ret' = IF results = <<>> THEN Panic ELSE Ok(results)
    /\ UNCHANGED <<env, next, threads, handles, results, history, overtaken, computed, leaked, rayon>>

\* the iterator is exhausted: results.collect() returns the Vec
Return ==
    /\ pc = "join"
    /\ handles = <<>>
    /\ pc' = "done"
    /\ ret' = Ok(results)
    /\ UNCHANGED <<env, next, threads, handles, results, history, overtaken, computed, leaked, rayon>>

\* ------------------------------------------------------------------------
\* part-6 main.rs
\* ------------------------------------------------------------------------

\* fn rayon_parallel_calculate: its body is todo!(), which panics
rayon_parallel_calculate(d) == [ret |-> Panic, spawned |-> 0]

\* run_test, after part_5::parallel_calculate(data_set.clone()) has returned:
\* time_elapsed("Rayon-implementation", || rayon_parallel_calculate(data_set))
RunTestRayon ==
    /\ pc = "done"
    /\ rayon.ret = None
    /\ rayon' = rayon_parallel_calculate(data)
    /\ UNCHANGED <<env, pc, next, threads, handles, results, ret, history, overtaken, computed, leaked>>

\* ------------------------------------------------------------------------
\* Specification
\* ------------------------------------------------------------------------

\* No test harness is running
NoHarness ==
    /\ test = "none"
    /\ hpc = "none"
    /\ checked = FALSE
    /\ started = FALSE
    /\ serial = None

\* The programs of parts 2 to 4 have not been started
NoDemos ==
    /\ b_pc = "start"
    /\ b_prod = "none"
    /\ b_sent = 0
    /\ b_chan = <<>>
    /\ b_x = 0
    /\ b_result = <<>>
    /\ r_pc = "start"
    /\ r_results = {}
    /\ a_pc = "start"
    /\ t_pc = "none"
    /\ mtx = [owner |-> "none", value |-> FALSE, poisoned |-> FALSE]

Init ==
    /\ data \in Datasets
    /\ overflow_checks \in BOOLEAN
    /\ parallelism \in 1..MaxP
    /\ NoHarness
    /\ NoDemos
    /\ pc = "idle"
    /\ next = 1
    /\ threads = <<>>
    /\ handles = <<>>
    /\ results = <<>>
    /\ ret = None
    /\ history = <<>>
    /\ overtaken = FALSE
    /\ computed = [i \in 1..Len(data) |-> 0]
    /\ leaked = 0
    /\ rayon = [ret |-> None, spawned |-> 0]

Next ==
    \/ Call
    \/ Spawn
    \/ SpawnDone
    \/ \E i \in DOMAIN threads : WorkerRun(i)
    \/ LeakedRun
    \/ Join
    \/ Return
    \/ RunTestRayon

Spec == Init /\ [][Next]_vars

TypeOK ==
    /\ data \in Datasets
    /\ pc \in {"idle", "spawn", "join", "done", "panicked"}
    /\ next \in 1..(Len(data) + 1)
    /\ Len(threads) <= Len(data)
    /\ leaked \in 0..(MaxRuns * MaxLen)

\* ------------------------------------------------------------------------
\* The timing tests: part-5 main.rs parallel_is_faster, part-6 main.rs run_test
\* ------------------------------------------------------------------------

\* parallelism = 0 stands for available_parallelism() returning Err
\* (a NonZeroUsize is never 0)
QueryErr == 0

\* common::ensure_can_run_parallel_test, and the same match written out in
\* parallel_is_faster: panics below two cores and on a failed query
ensure_can_run_parallel_test(p) ==
    IF p = QueryErr THEN "panic: Unexpected error. Does your system even have cores?"
    ELSE IF p < 2 THEN "panic: Please run on a system with more than 1 core"
    ELSE "ok"

D123 == <<u64(1), u64(2), u64(3)>>

\* large_dataset: (0..100).map(Data), cut to its first MaxLen items
LargeDataset == [i \in 1..MaxLen |-> u64(i - 1)]

\* The datasets the tests pass: vec![Data(1), Data(2), Data(3)] and the large one
TestDatasets(t) == IF t = "run_test" THEN {D123, LargeDataset} ELSE {D123}

\* parallel_is_faster: match std::thread::available_parallelism() { .. }
PIF_Check ==
    /\ test = "parallel_is_faster"
    /\ hpc = "start"
    /\ checked' = TRUE
    /\ hpc' = IF ensure_can_run_parallel_test(parallelism) = "ok" THEN "checked" ELSE "panicked"
    /\ UNCHANGED <<machine, demos, part5, test, started, serial>>

\* parallel_is_faster: start_serial = now(); serial = serial_calculate(data.clone())
PIF_Serial ==
    /\ test = "parallel_is_faster"
    /\ hpc = "checked"
    /\ started' = TRUE
    /\ serial' = serial_calculate(data)
    /\ hpc' = IF serial'.kind = "panic" THEN "panicked" ELSE "serial_done"
    /\ UNCHANGED <<machine, demos, part5, test, checked>>

\* parallel_is_faster: start_parallel = now(); parallel_calculate(data) is entered
PIF_Parallel ==
    /\ test = "parallel_is_faster"
    /\ hpc = "serial_done"
    /\ pc = "idle"
    /\ pc' = "spawn"
    /\ hpc' = "parallel"
    /\ UNCHANGED <<machine, demos, next, threads, handles, results, ret, history, overtaken,
                   computed, leaked, rayon, test, checked, started, serial>>

\* parallel_is_faster: the call has ended; assert_eq!(serial, parallel) and
\* assert!(serial_elapsed > parallel_elapsed), whose outcome depends on the
\* measured wall-clock times
PIF_Assert ==
    /\ test = "parallel_is_faster"
    /\ hpc = "parallel"
    /\ ret.kind # "none"
    /\ \E faster \in BOOLEAN :
         hpc' = IF ret = serial /\ faster THEN "passed" ELSE "panicked"
    /\ UNCHANGED <<machine, demos, part5, test, checked, started, serial>>

\* run_test: time_elapsed("Hand-implemented", || part_5::parallel_calculate(data_set.clone()))
\* is the first statement of the test
RT_HandImplemented ==
    /\ test = "run_test"
    /\ hpc = "start"
    /\ pc = "idle"
    /\ started' = TRUE
    /\ pc' = "spawn"
    /\ hpc' = "hand"
    /\ UNCHANGED <<machine, demos, next, threads, handles, results, ret, history, overtaken,
                   computed, leaked, rayon, test, checked, serial>>

\* run_test: the test unwinds when one of the two calls panicked, and
\* otherwise reaches assert_eq! and the comparison of the elapsed times
RT_Finish ==
    /\ test = "run_test"
    /\ hpc = "hand"
    /\ ret.kind = "panic" \/ rayon.ret.kind # "none"
    /\ \E faster \in BOOLEAN :
         hpc' = IF ret.kind = "ok" /\ rayon.ret = ret /\ faster THEN "passed" ELSE "panicked"
    /\ UNCHANGED <<machine, demos, part5, test, checked, started, serial>>

InitHarness ==
    /\ test \in {"parallel_is_faster", "run_test"}
    /\ data \in TestDatasets(test)
    /\ overflow_checks \in BOOLEAN
    /\ parallelism \in {QueryErr} \cup (1..MaxP)
    /\ hpc = "start"
    /\ checked = FALSE
    /\ started = FALSE
    /\ serial = None
    /\ NoDemos
    /\ pc = "idle"
    /\ next = 1
    /\ threads = <<>>
    /\ handles = <<>>
    /\ results = <<>>
    /\ ret = None
    /\ history = <<>>
    /\ overtaken = FALSE
    /\ computed = [i \in 1..Len(data) |-> 0]
    /\ leaked = 0
    /\ rayon = [ret |-> None, spawned |-> 0]

NextHarness ==
    \/ PIF_Check
    \/ PIF_Serial
    \/ PIF_Parallel
    \/ PIF_Assert
    \/ RT_HandImplemented
    \/ Spawn
    \/ SpawnDone
    \/ \E i \in DOMAIN threads : WorkerRun(i)
    \/ Join
    \/ Return
    \/ (test = "run_test" /\ hpc = "hand" /\ RunTestRayon)
    \/ RT_Finish

SpecHarness == InitHarness /\ [][NextHarness]_vars

\* ------------------------------------------------------------------------
\* part-2 main.rs: one producer thread, the caller receives
\* ------------------------------------------------------------------------

\* (0..10): the producer sends the values 0..NumValues-1
NumValues == 10

\* across_the_border(): the channel is created, the producer thread is
\* spawned with tx moved into it, and rx is returned to the caller
P2_AcrossTheBorder ==
    /\ b_pc = "start"
    /\ b_prod' = "sending"
    /\ b_pc' = "recv"
    /\ UNCHANGED <<machine, part5, harness, part3, part4, b_sent, b_chan, b_x, b_result>>

\* producer: tx.send(x).expect("Couldn't send value") for the next x of 0..10;
\* send fails once the receiver has been dropped
P2_Send ==
    /\ b_prod = "sending"
    /\ b_sent < NumValues
    /\ IF b_pc # "done"
       THEN /\ b_chan' = Append(b_chan, b_sent)
            /\ b_sent' = b_sent + 1
            /\ UNCHANGED b_prod
       ELSE /\ b_prod' = "panicked"
            /\ UNCHANGED <<b_chan, b_sent>>
    /\ UNCHANGED <<machine, part5, harness, part3, part4, b_pc, b_x, b_result>>

\* producer: for_each is over, the closure returns and tx is dropped
P2_ProducerEnd ==
    /\ b_prod = "sending"
    /\ b_sent = NumValues
    /\ b_prod' = "ended"
    /\ UNCHANGED <<machine, part5, harness, part3, part4, b_pc, b_sent, b_chan, b_x, b_result>>

\* Variant: the loop polls with try_recv(), which errs on an empty channel
\* whether or not the sender is still there
P2_Recv_TryRecv ==
    /\ b_pc = "recv"
    /\ IF b_chan # <<>>
       THEN /\ b_x' = Head(b_chan)
            /\ b_chan' = Tail(b_chan)
            /\ b_pc' = "push"
       ELSE /\ b_pc' = "done"
            /\ UNCHANGED <<b_x, b_chan>>
    /\ UNCHANGED <<machine, part5, harness, part3, part4, b_prod, b_sent, b_result>>

\* while let Ok(x) = receiver.recv(): blocks while the channel is empty and
\* the sender lives; Ok(head) when a message is queued; Err, which ends the
\* loop, when the channel is empty and the sender is gone
P2_Recv ==
    /\ b_pc = "recv"
    /\ b_chan # <<>> \/ b_prod \in {"ended", "panicked"}
    /\ IF b_chan # <<>>
       THEN /\ b_x' = Head(b_chan)
            /\ b_chan' = Tail(b_chan)
            /\ b_pc' = "push"
       ELSE /\ b_pc' = "done"
            /\ UNCHANGED <<b_x, b_chan>>
    /\ UNCHANGED <<machine, part5, harness, part3, part4, b_prod, b_sent, b_result>>

\* the loop body: result.push(x) (println! in main)
P2_Push ==
    /\ b_pc = "push"
    /\ b_result' = Append(b_result, b_x)
    /\ b_pc' = "recv"
    /\ UNCHANGED <<machine, part5, harness, part3, part4, b_prod, b_sent, b_chan, b_x>>

\* ------------------------------------------------------------------------
\* part-3 main.rs
\* ------------------------------------------------------------------------

\* fn producers: its body is todo!(), which panics before any channel or
\* thread exists, so the caller's receive loop is never entered
P3_Producers ==
    /\ r_pc = "start"
    /\ r_pc' = "panicked"
    /\ UNCHANGED <<machine, part5, harness, part2, part4, r_results>>

\* ------------------------------------------------------------------------
\* part-4 main.rs: a thread sets a Mutex<bool>, the caller joins it
\* ------------------------------------------------------------------------

\* assignment(x.clone()): thread::spawn(move || ..), then .join() is entered
P4_Spawn ==
    /\ a_pc = "start"
    /\ t_pc' = "lock"
    /\ a_pc' = "join"
    /\ UNCHANGED <<machine, part5, harness, part2, part3, mtx>>

\* thread: x.lock().unwrap(): waits for the mutex, panics when it is poisoned
P4_ThreadLock ==
    /\ t_pc = "lock"
    /\ mtx.owner = "none"
    /\ IF mtx.poisoned
       THEN t_pc' = "panicked" /\ UNCHANGED mtx
       ELSE t_pc' = "write" /\ mtx' = [mtx EXCEPT !.owner = "thread"]
    /\ UNCHANGED <<machine, part5, harness, part2, part3, a_pc>>

\* thread: *guard = true
P4_ThreadWrite ==
    /\ t_pc = "write"
    /\ mtx' = [mtx EXCEPT !.value = TRUE]
    /\ t_pc' = "unlock"
    /\ UNCHANGED <<machine, part5, harness, part2, part3, a_pc>>

\* thread: the guard is dropped at the end of the statement, the closure returns
P4_ThreadUnlock ==
    /\ t_pc = "unlock"
    /\ mtx' = [mtx EXCEPT !.owner = "none"]
    /\ t_pc' = "ended"
    /\ UNCHANGED <<machine, part5, harness, part2, part3, a_pc>>

\* Variant: the handle is dropped instead of joined, assignment returns at once
P4_Join_Detached ==
    /\ a_pc = "join"
    /\ a_pc' = "returned"
    /\ UNCHANGED <<machine, part5, harness, part2, part3, t_pc, mtx>>

\* assignment: .join().expect("Couldn't join thread") waits for the thread
\* to end and panics when it panicked; otherwise assignment returns
P4_Join ==
    /\ a_pc = "join"
    /\ t_pc \in {"ended", "panicked"}
    /\ a_pc' = IF t_pc = "ended" THEN "returned" ELSE "panicked"
    /\ UNCHANGED <<machine, part5, harness, part2, part3, t_pc, mtx>>

\* caller: let result = x.lock().unwrap()
P4_MainLock ==
    /\ a_pc = "returned"
    /\ mtx.owner = "none"
    /\ IF mtx.poisoned
       THEN a_pc' = "panicked" /\ UNCHANGED mtx
       ELSE a_pc' = "locked" /\ mtx' = [mtx EXCEPT !.owner = "main"]
    /\ UNCHANGED <<machine, part5, harness, part2, part3, t_pc>>

\* caller: assert!(*result); the guard is dropped on the way out, poisoning
\* the mutex when the assertion unwinds
P4_MainAssert ==
    /\ a_pc = "locked"
    /\ a_pc' = IF mtx.value THEN "done" ELSE "panicked"
    /\ mtx' = [mtx EXCEPT !.owner = "none", !.poisoned = ~mtx.value]
    /\ UNCHANGED <<machine, part5, harness, part2, part3, t_pc>>

\* ------------------------------------------------------------------------
\* The three programs, each a process of its own, run side by side; every
\* runnable thread is eventually scheduled
\* ------------------------------------------------------------------------
InitDemos ==
    /\ data = <<>>
    /\ overflow_checks = TRUE
    /\ parallelism = 1
    /\ NoHarness
    /\ NoDemos
    /\ pc = "idle"
    /\ next = 1
    /\ threads = <<>>
    /\ handles = <<>>
    /\ results = <<>>
    /\ ret = None
    /\ history = <<>>
    /\ overtaken = FALSE
    /\ computed = <<>>
    /\ leaked = 0
    /\ rayon = [ret |-> None, spawned |-> 0]

NextDemos ==
    \/ P2_AcrossTheBorder
    \/ P2_Send
    \/ P2_ProducerEnd
    \/ P2_Recv
    \/ P2_Push
    \/ P3_Producers
    \/ P4_Spawn
    \/ P4_ThreadLock
    \/ P4_ThreadWrite
    \/ P4_ThreadUnlock
    \/ P4_Join
    \/ P4_MainLock
    \/ P4_MainAssert

SpecDemos ==
    /\ InitDemos
    /\ [][NextDemos]_vars
    /\ WF_vars(P2_AcrossTheBorder) /\ WF_vars(P2_Send) /\ WF_vars(P2_ProducerEnd)
    /\ WF_vars(P2_Recv) /\ WF_vars(P2_Push)
    /\ WF_vars(P3_Producers)
    /\ WF_vars(P4_Spawn) /\ WF_vars(P4_ThreadLock) /\ WF_vars(P4_ThreadWrite)
    /\ WF_vars(P4_ThreadUnlock) /\ WF_vars(P4_Join) /\ WF_vars(P4_MainLock)
    /\ WF_vars(P4_MainAssert)

\* ------------------------------------------------------------------------
\* Properties
\* ------------------------------------------------------------------------

\* The call has ended, by returning or by unwinding
Ended == ret.kind # "none"

\* r / 2 on the limbs of a u64
Half(r) ==
    <<(r[1] + (r[2] % 2) * LimbBase) \div 2,
      (r[2] + (r[3] % 2) * LimbBase) \div 2,
      (r[3] + (r[4] % 2) * LimbBase) \div 2,
      r[4] \div 2>>

\* r is exactly the natural number 2n
IsDouble(r, n) == r[1] % 2 = 0 /\ Half(r) = n

\* C1: whenever parallel_calculate(D) ends, its outcome is the outcome of
\* serial_calculate(D): the same length and the same element at every
\* position, whatever the order in which the workers completed.
C1_ParallelEqualsSerial ==
    Ended => /\ ret = serial_calculate(data)
             /\ ret.kind = "ok" =>
                   /\ Len(ret.val) = Len(data)
                   /\ \A i \in 1..Len(data) : Ok(ret.val[i]) = calculate(data[i])

\* C1 witness: [1,2,3] returned [2,4,6] although a worker ended before one
\* spawned earlier
C1_Witness ==
    /\ data = D123
    /\ overtaken
    /\ ret = Ok(<<u64(2), u64(4), u64(6)>>)

\* C2 (as claimed): every worker that ran calculate(Data(n)) got exactly 2n,
\* for every n of the 64-bit range.
C2_CalculateDoubles ==
    \A i \in DOMAIN threads :
        threads[i].result.kind # "none" =>
            /\ threads[i].result.kind = "ok"
            /\ IsDouble(threads[i].result.val, threads[i].datum)

\* C3 (as claimed): in no state has the call ended while one of its workers
\* is still running.
C3_NoWorkerOutlivesCall == Ended => Running(threads) = {}

\* C4: if a worker's calculate panicked, the ended call has failed; a call
\* that returns a Vec returns one element per input item, none of them from
\* a failed worker, so no partial or shortened Vec reaches the caller.
C4_NoPartialResult ==
    /\ (Ended /\ \E i \in DOMAIN threads : threads[i].result.kind = "panic")
          => ret = Panic
    /\ ret.kind = "ok" =>
          /\ Len(ret.val) = Len(data)
          /\ \A i \in DOMAIN threads : threads[i].result.kind = "ok"

\* C4 witness: the call failed on worker 2 after it had collected worker 1's
\* result, while worker 3 had already produced its own
C4_Witness ==
    /\ ret = Panic
    /\ Len(data) = 3
    /\ threads[1].state = "joined" /\ threads[1].result.kind = "ok"
    /\ threads[2].result.kind = "panic"
    /\ threads[3].result.kind = "ok"

\* C5: once the spawn loop is over, exactly |D| workers have been spawned
\* (and k workers after k iterations), whatever the hardware parallelism.
C5_SpawnCountIsLen ==
    /\ pc = "spawn" => Len(threads) = next - 1
    /\ pc \in {"join", "done", "panicked"} => Len(threads) = Len(data)

\* C5 witness: three workers on a machine with a single execution unit
C5_Witness == pc = "done" /\ Len(threads) = 3 /\ parallelism = 1

\* C6 (as claimed): a started batch is never aborted: when the call ends it
\* has returned |D| results and every worker has finished its item.
C6_RunsToCompletion ==
    Ended => /\ ret.kind = "ok"
             /\ Len(ret.val) = Len(data)
             /\ \A i \in DOMAIN threads : threads[i].state = "joined"

\* C7: on the empty dataset serial_calculate returns the empty Vec,
\* parallel_calculate spawns no worker and, when it ends, has returned the
\* empty Vec.
C7_EmptyDataset ==
    data = <<>> =>
        /\ serial_calculate(data) = Ok(<<>>)
        /\ threads = <<>>
        /\ Ended => ret = Ok(<<>>)

\* C7 witness: a call on the empty dataset has returned
C7_Witness == data = <<>> /\ pc = "done" /\ ret = Ok(<<>>)

\* C8 (as claimed): the pool-based implementation has spawned
\* min(available parallelism, |D|) workers when it ends.
C8_PoolWorkerCount ==
    rayon.ret.kind # "none" => rayon.spawned = Min(parallelism, Len(data))

\* C9 (as claimed): rayon_parallel_calculate hands run_test the same
\* sequence as part_5::parallel_calculate did.
C9_RayonEqualsHandWritten ==
    rayon.ret.kind # "none" => rayon.ret = ret

\* C10: every earlier call on the same dataset ended with the same outcome
\* as the current one, whatever the order in which its workers ended.
C10_RepeatedCallsAgree ==
    Ended => \A k \in 1..Len(history) : history[k].ret = ret

\* C10 witness: two calls on [1,2,3] whose workers ended in different
\* orders returned the same Vec
C10_Witness ==
    /\ data = D123
    /\ Len(history) >= 1
    /\ history[1].ret.kind = "ok"
    /\ ~history[1].overtaken
    /\ overtaken
    /\ ret = history[1].ret

\* C16: no item is ever computed twice; the item at position i has been
\* computed exactly once as soon as the worker spawned for it has ended, by
\* that worker alone; and when the call returns every item has been
\* computed exactly once.
C16_EachItemOnce ==
    /\ \A i \in 1..Len(data) : computed[i] <= 1
    /\ \A i \in 1..Len(data) :
          computed[i] = 1 <=> (i \in DOMAIN threads /\ threads[i].index = i
                                 /\ threads[i].datum = data[i]
                                 /\ threads[i].state # "running")
    /\ pc = "done" => \A i \in 1..Len(data) : computed[i] = 1

\* C16 witness: a call on three items has returned with each computed once
C16_Witness ==
    /\ pc = "done"
    /\ Len(data) = 3
    /\ \A i \in 1..3 : computed[i] = 1

\* C17: a step that takes a handle off the join iterator (a join) happens
\* only when a worker has been started for every input item.
C17_SpawnAllBeforeJoin ==
    [][Len(handles') < Len(handles) =>
         (~MoreData /\ Len(threads) = Len(data) /\ pc = "join")]_vars

\* C17 witness: the first join of a three-item call has happened
C17_Witness ==
    /\ Len(data) = 3
    /\ Len(threads) = 3
    /\ threads[1].state = "joined"
    /\ Len(handles) = 2

\* C18: while the call collects, the handles left are exactly the workers
\* after the last collected position, in spawn order; position k of the
\* output is the result of the worker spawned for input k, which has been
\* joined; and no worker beyond the collected prefix has been joined, even
\* when it has already finished.
C18_JoinInSpawnOrder ==
    pc \in {"join", "done"} =>
        /\ handles = [k \in 1..(Len(threads) - Len(results)) |-> Len(results) + k]
        /\ \A k \in 1..Len(results) :
              /\ threads[k].state = "joined"
              /\ threads[k].index = k
              /\ Ok(results[k]) = threads[k].result
        /\ \A k \in (Len(results) + 1)..Len(threads) : threads[k].state # "joined"

\* C18 witness: worker 3 has finished while worker 2 is still running, and
\* only position 1 has been collected
C18_Witness ==
    /\ pc = "join"
    /\ Len(threads) = 3
    /\ Len(results) = 1
    /\ threads[2].state = "running"
    /\ threads[3].state = "finished"

\* C11 (as claimed): in each timing test, once a timed run has begun the
\* parallelism check has run and the machine has at least 2 execution units.
C11_CheckBeforeTiming ==
    started => (checked /\ ensure_can_run_parallel_test(parallelism) = "ok")

\* The values 0..NumValues-1 in increasing order
Sequence0To9 == [k \in 1..NumValues |-> k - 1]

\* C13: what the consumer of across_the_border() has collected is always an
\* initial part of 0,1,...,9 in that order; its loop has ended only with all
\* ten collected and the producer gone; and the loop does end.
C13_BorderDelivery ==
    /\ [](/\ Len(b_result) <= NumValues
          /\ b_result = SubSeq(Sequence0To9, 1, Len(b_result))
          /\ b_pc = "done" => (b_result = Sequence0To9 /\ b_prod = "ended"))
    /\ <>(b_pc = "done")

\* C13 witness: the loop has ended with 0..9 collected
C13_Witness == b_pc = "done" /\ b_result = <<0, 1, 2, 3, 4, 5, 6, 7, 8, 9>>

\* C14: once assignment has returned, the thread has ended, the boolean is
\* true and the mutex is neither held by the thread nor poisoned; the
\* caller's lock() then succeeds and its assert reads true, so the caller
\* never panics.
C14_AssignmentSetsTrue ==
    /\ a_pc \in {"returned", "locked", "done"} =>
          /\ t_pc = "ended"
          /\ mtx.value = TRUE
          /\ mtx.poisoned = FALSE
          /\ mtx.owner = IF a_pc = "locked" THEN "main" ELSE "none"
    /\ a_pc # "panicked"

\* C14 witness: the caller holds the lock after assignment returned and reads true
C14_Witness == a_pc = "locked" /\ mtx.owner = "main" /\ mtx.value = TRUE /\ t_pc = "ended"

\* C15 (as claimed): once producers() has been called, its consumer ends up
\* with exactly the values 0..9 collected.
C15_ProducersDeliver ==
    r_pc # "start" => (r_pc # "panicked" /\ r_results = 0..9)
====
